---- MODULE Spec2Model ----
(***************************************************************************)
(* Flow control operations of the recipe interpreter                       *)
(* (src/src/core/operations/legacy/FlowControl.js): Fork, Merge, Register, *)
(* Jump, Conditional Jump, Return, Comment and the label resolver, run by  *)
(* the recipe's execute loop.                                              *)
(*                                                                         *)
(* Text is a sequence of one-character strings, so that splitting,         *)
(* searching and the $Rn substitution are computed character by character. *)
(* Cursors are 0-based as in the source; sequences are 1-based, so the     *)
(* operation at cursor i of a list l is l[i + 1].                          *)
(***************************************************************************)
EXTENDS Integers, Sequences, FiniteSets, TLC

VARIABLES opList, stack, numJumps, numRegisters, forkOffset, status, err, last,
          published, unescaped, worker, awaiting

vars == <<opList, stack, numJumps, numRegisters, forkOffset, status, err, last,
          published, unescaped, worker, awaiting>>

(***************************************************************************)
(* Bounds of the model.                                                    *)
(***************************************************************************)
\* Jump budgets range over 0 .. MaxBudget.
MaxBudget == 2
\* Backslash runs in front of a register token range over 0 .. MaxSlashes.
MaxSlashes == 3
\* Ingredient texts drawn from the token alphabet have at most MaxText characters.
MaxText == 4
\* The budget of the Jump that repeats a capture until the register counter
\* passes 100.
LongBudget == 50

(***************************************************************************)
(* Ingredient values: a string, a number, a boolean, or a structured value *)
(* with a nested "string" field (FlowControl.js:159-165).                  *)
(***************************************************************************)
Str(s) == [t |-> "string", s |-> s, n |-> 0, b |-> FALSE]
Num(n) == [t |-> "number", s |-> <<>>, n |-> n, b |-> FALSE]
Bool(b) == [t |-> "boolean", s |-> <<>>, n |-> 0, b |-> b]
Obj(s) == [t |-> "object", s |-> s, n |-> 0, b |-> FALSE]

MkOp(name, disabled, ingValues) ==
    [name |-> name, disabled |-> disabled, ingValues |-> ingValues]

(***************************************************************************)
(* Text helpers.                                                           *)
(***************************************************************************)
Digits == {"0", "1", "2", "3", "4", "5", "6", "7", "8", "9"}

DigitVal(c) ==
    CASE c = "0" -> 0 [] c = "1" -> 1 [] c = "2" -> 2 [] c = "3" -> 3
      [] c = "4" -> 4 [] c = "5" -> 5 [] c = "6" -> 6 [] c = "7" -> 7
      [] c = "8" -> 8 [] c = "9" -> 9

\* String.prototype.split with a string separator (FlowControl.js:39).
RECURSIVE SplitFrom(_, _, _, _)
SplitFrom(s, d, start, p) ==
    IF p + Len(d) - 1 > Len(s)
    THEN <<SubSeq(s, start, Len(s))>>
    ELSE IF SubSeq(s, p, p + Len(d) - 1) = d
         THEN <<SubSeq(s, start, p - 1)>> \o SplitFrom(s, d, p + Len(d), p + Len(d))
         ELSE SplitFrom(s, d, start, p + 1)

Split(s, d) ==
    IF d = <<>> THEN [k \in 1..Len(s) |-> <<s[k]>>] ELSE SplitFrom(s, d, 1, 1)

(***************************************************************************)
(* Regular expressions, for the patterns the model uses: literal           *)
(* characters, ".", capture groups, and the assertions "^" and "$".  Every *)
(* atom other than an assertion matches exactly one character, so a match  *)
(* that starts at a position has one length and the leftmost match is the  *)
(* only candidate.  modifiers is the set of flags the RegExp was built     *)
(* with, a subset of {"i", "m"}.  A failed match (JavaScript's null) is    *)
(* the empty sequence; a successful one is                                 *)
(* <<whole match, group 1, ..., group g>>, the groups numbered by their    *)
(* opening parenthesis.                                                    *)
(***************************************************************************)
\* The line terminators, which "." does not match and which bound a line
\* for "^" and "$" under the flag m (the ASCII ones).
LineTerminators == {"\n", "\r"}

LowerCase ==
    <<"a", "b", "c", "d", "e", "f", "g", "h", "i", "j", "k", "l", "m",
      "n", "o", "p", "q", "r", "s", "t", "u", "v", "w", "x", "y", "z">>

UpperCase ==
    <<"A", "B", "C", "D", "E", "F", "G", "H", "I", "J", "K", "L", "M",
      "N", "O", "P", "Q", "R", "S", "T", "U", "V", "W", "X", "Y", "Z">>

\* The character a comparison under the flag i is made on: its upper case.
Canonicalize(c, modifiers) ==
    IF "i" \in modifiers /\ \E k \in 1..Len(LowerCase) : LowerCase[k] = c
    THEN UpperCase[CHOOSE k \in 1..Len(LowerCase) : LowerCase[k] = c]
    ELSE c

\* The characters of a pattern that consume a character of the text.
Atoms(pat) == SelectSeq(pat, LAMBDA c : c \notin {"(", ")", "^", "$"})

NumGroups(pat) == Len(SelectSeq(pat, LAMBDA c : c = "("))

\* Position in pat of the k-th occurrence of character c, scanning from p.
RECURSIVE NthPos(_, _, _, _)
NthPos(pat, c, k, p) ==
    IF pat[p] = c
    THEN IF k = 1 THEN p ELSE NthPos(pat, c, k - 1, p + 1)
    ELSE NthPos(pat, c, k, p + 1)

\* Position in pat of the parenthesis that closes the group open at depth
\* `depth` when the scan is at p.
RECURSIVE CloseOf(_, _, _)
CloseOf(pat, p, depth) ==
    IF pat[p] = ")"
    THEN IF depth = 1 THEN p ELSE CloseOf(pat, p + 1, depth - 1)
    ELSE IF pat[p] = "(" THEN CloseOf(pat, p + 1, depth + 1)
         ELSE CloseOf(pat, p + 1, depth)

AtomsBefore(pat, pos) == Len(Atoms(SubSeq(pat, 1, pos)))

\* The character c of the pattern, at index k of it, matches in s when the
\* match starts at p.
AtomMatches(pat, k, s, p, modifiers) ==
    LET c == pat[k]
        q == p + AtomsBefore(pat, k - 1)
    IN CASE c \in {"(", ")"} -> TRUE
         [] c = "^" -> q = 1 \/ ("m" \in modifiers /\ s[q - 1] \in LineTerminators)
         [] c = "$" -> \/ q = Len(s) + 1
                       \/ ("m" \in modifiers /\ s[q] \in LineTerminators)
         [] c = "." -> s[q] \notin LineTerminators
         [] OTHER -> Canonicalize(c, modifiers) = Canonicalize(s[q], modifiers)

\* The pattern matches in s from position p on.
MatchAt(pat, s, p, modifiers) ==
    /\ p + Len(Atoms(pat)) - 1 <= Len(s)
    /\ \A k \in 1..Len(pat) : AtomMatches(pat, k, s, p, modifiers)

\* RegExp.prototype.exec of new RegExp(pat, modifiers) on s, which is what
\* input.match(extractor) returns for a RegExp without the flag g.
RegExpExec(pat, modifiers, s) ==
    LET hits == {p \in 1..(Len(s) + 1) : MatchAt(pat, s, p, modifiers)}
    IN IF hits = {} THEN <<>>
       ELSE LET p == CHOOSE x \in hits : \A y \in hits : x <= y
                open(k) == NthPos(pat, "(", k, 1)
                group(k) ==
                    SubSeq(s, p + AtomsBefore(pat, open(k)),
                              p + AtomsBefore(pat, CloseOf(pat, open(k) + 1, 1)) - 1)
            IN <<SubSeq(s, p, p + Len(Atoms(pat)) - 1)>>
                   \o [k \in 1..NumGroups(pat) |-> group(k)]

\* String.prototype.search(regexStr) > -1 (FlowControl.js:228): the string
\* becomes new RegExp(regexStr), with no flag.
Search(s, regexStr) == RegExpExec(regexStr, {}, s) # <<>>

(***************************************************************************)
(* _getLabelIndex (FlowControl.js:277-288): the index of the first         *)
(* operation named "Label" whose first ingredient equals name, or -1.      *)
(***************************************************************************)
getLabelIndex(name, state) ==
    LET found == {o \in 0..(Len(state.opList) - 1) :
                     /\ state.opList[o + 1].name = "Label"
                     /\ name = state.opList[o + 1].ingValues[1]}
    IN IF found = {} THEN -1
       ELSE CHOOSE o \in found : \A x \in found : o <= x

(***************************************************************************)
(* replaceRegister (FlowControl.js:142-151).  numRegs is                   *)
(* state.numRegisters, registers the match array (registers[1] is the      *)
(* whole match, JavaScript's registers[0]).                                *)
(***************************************************************************)
\* The callback with the lower bound of the range off by one (< for <=).
ReplacerLowerBound(match, slashes, regNum, numRegs, registers) ==
    LET index == regNum + 1
    IN IF index < numRegs \/ index >= numRegs + Len(registers)
       THEN match
       ELSE IF Len(slashes) % 2 # 0
            THEN Tail(match)
            ELSE slashes \o registers[index - numRegs + 1]

\* The callback leaving an escaped token as it stands (no match.slice(1)).
ReplacerKeepsEscape(match, slashes, regNum, numRegs, registers) ==
    LET index == regNum + 1
    IN IF index <= numRegs \/ index >= numRegs + Len(registers)
       THEN match
       ELSE IF Len(slashes) % 2 # 0
            THEN match
            ELSE slashes \o registers[index - numRegs + 1]

\* The callback of str.replace (FlowControl.js:144-150).
Replacer(match, slashes, regNum, numRegs, registers) ==
    LET index == regNum + 1
    IN IF index <= numRegs \/ index >= numRegs + Len(registers)
       THEN match
       ELSE IF Len(slashes) % 2 # 0
            THEN Tail(match)
            ELSE slashes \o registers[index - numRegs + 1]

\* Length of the run of backslashes of str that starts at p.
RECURSIVE SlashRun(_, _)
SlashRun(str, p) ==
    IF p <= Len(str) /\ str[p] = "\\" THEN 1 + SlashRun(str, p + 1) ELSE 0

\* The global scan of /(\\*)\$R(\d{1,2})/g from position p.
RECURSIVE ReplaceFrom(_, _, _, _)
ReplaceFrom(str, p, numRegs, registers) ==
    IF p > Len(str) THEN <<>>
    ELSE LET q == p + SlashRun(str, p)
             hit == /\ q + 2 <= Len(str)
                    /\ str[q] = "$"
                    /\ str[q + 1] = "R"
                    /\ str[q + 2] \in Digits
         IN IF ~hit
            THEN <<str[p]>> \o ReplaceFrom(str, p + 1, numRegs, registers)
            ELSE LET two == q + 3 <= Len(str) /\ str[q + 3] \in Digits
                     e == IF two THEN q + 3 ELSE q + 2
                     regNum == IF two
                               THEN 10 * DigitVal(str[q + 2]) + DigitVal(str[q + 3])
                               ELSE DigitVal(str[q + 2])
                 IN Replacer(SubSeq(str, p, e), SubSeq(str, p, q - 1),
                             regNum, numRegs, registers)
                        \o ReplaceFrom(str, e + 1, numRegs, registers)

replaceRegister(str, numRegs, registers) == ReplaceFrom(str, 1, numRegs, registers)

(***************************************************************************)
(* The tokens of a text, position by position: what the pattern of        *)
(* replaceRegister matches (FlowControl.js:144).                           *)
(***************************************************************************)
\* A register token of text t starts at q: $R and a digit.
TokenAt(t, q) ==
    q + 2 <= Len(t) /\ t[q] = "$" /\ t[q + 1] = "R" /\ t[q + 2] \in Digits

TwoDigits(t, q) == q + 3 <= Len(t) /\ t[q + 3] \in Digits

TokenNum(t, q) ==
    IF TwoDigits(t, q) THEN 10 * DigitVal(t[q + 2]) + DigitVal(t[q + 3])
    ELSE DigitVal(t[q + 2])

TokenEnd(t, q) == IF TwoDigits(t, q) THEN q + 3 ELSE q + 2

TokenStarts(t) == {q \in 1..Len(t) : TokenAt(t, q)}

\* The number of backslashes right in front of position q of t.
RECURSIVE SlashesBefore(_, _)
SlashesBefore(t, q) ==
    IF q > 1 /\ t[q - 1] = "\\" THEN 1 + SlashesBefore(t, q - 1) ELSE 0

(***************************************************************************)
(* The execution state.                                                    *)
(*                                                                         *)
(* opList is the recipe's operation list.  A fork's sub-list holds the     *)
(* very operation objects of the list it was cut from                      *)
(* (subOpList.push(opList[i]), FlowControl.js:47), so a run is a window    *)
(* [lo, lo + len) onto opList and every write to an operation's ingValues  *)
(* is a write to opList.  stack holds one frame per active run of          *)
(* execute, the outermost first; a frame that is inside runFork keeps      *)
(* runFork's locals in its fork field.  numJumps, numRegisters and         *)
(* forkOffset are the counters of the execution state every run shares.    *)
(* status is "run", "throwing" (a failure is propagating to the enclosing  *)
(* fork), "done" or "failed"; err is the progress the failure carries.     *)
(* last is a history variable: the step taken last and the values it       *)
(* started from.  Two fields of a fork's locals are history too: results,  *)
(* the value and the exit progress each tranche ended with and whether the *)
(* tranche failed, and entry, the ingredient values the sub-list had when  *)
(* the Fork began.  published is the history of the calls of               *)
(* self.setRegisters (FlowControl.js:133): the absolute index of each      *)
(* call, with the position in opList of the Register that made it and of   *)
(* the Fork whose tranche it ran in (-1 in the outermost run).  unescaped   *)
(* is history as well: the tokens $Rd some capture of the run has stripped *)
(* the escape of.                                                          *)
(*                                                                         *)
(* worker is the environment of the run: whether it is the worker, which   *)
(* ENVIRONMENT_IS_WORKER() reports.                                        *)
(*                                                                         *)
(* awaiting is the position of an operation that is suspended at an await  *)
(* of its own: at is "none" when none is, else the function and the line   *)
(* of the await, and the other fields are the locals the function has      *)
(* computed before it suspended.  last is not touched by the step that     *)
(* suspends an operation: it describes the operation completed last.       *)
(***************************************************************************)
NoAwait == [at |-> "none"]

\* What state.dish.get returns to its caller: the value itself, or a
\* Promise of it (a get that may suspend).
DishGet == {"value", "promise"}

NoFork ==
    [active |-> FALSE, input |-> <<>>, inputs |-> <<>>, i |-> 0, output |-> <<>>,
     progress |-> 0, ingValues |-> <<>>, mergeDelim |-> <<>>,
     ignoreErrors |-> FALSE, results |-> <<>>, entry |-> <<>>]

Frame(lo, len, dish) ==
    [lo |-> lo, len |-> len, progress |-> 0, dish |-> dish, fork |-> NoFork]

Depth == Len(stack)
Top == stack[Depth]

\* The operation list of a frame's run.
WindowOps(f) == SubSeq(opList, f.lo + 1, f.lo + f.len)

\* The state object handed to a flow control operation of the running frame.
State ==
    [progress |-> Top.progress, dish |-> Top.dish, opList |-> WindowOps(Top),
     numJumps |-> numJumps, numRegisters |-> numRegisters,
     forkOffset |-> forkOffset]

CurOp == opList[Top.lo + Top.progress + 1]

\* opList with the window of frame f replaced by ops.
WriteBack(f, ops) ==
    [k \in 1..Len(opList) |->
        IF k > f.lo /\ k <= f.lo + f.len THEN ops[k - f.lo] ELSE opList[k]]

Event(act) ==
    [act |-> act, depth |-> Depth, progress |-> Top.progress, dish |-> Top.dish,
     numJumps |-> numJumps, numRegisters |-> numRegisters,
     forkOffset |-> forkOffset, unescaped |-> unescaped, lo |-> Top.lo,
     len |-> Top.len, opList |-> opList, fork |-> NoFork]

(***************************************************************************)
(* The flow control operations, each a function from state to state.       *)
(***************************************************************************)
\* runJump without the count of the jump taken (state.numJumps++ left out).
runJumpUncounted(state) ==
    LET ings == state.opList[state.progress + 1].ingValues
        jmpIndex == getLabelIndex(ings[1], state)
    IN IF state.numJumps >= ings[2].n \/ jmpIndex = -1
       THEN state
       ELSE [state EXCEPT !.progress = jmpIndex]

\* runJump with the budget test off by one (> for >=).
runJumpOffByOne(state) ==
    LET ings == state.opList[state.progress + 1].ingValues
        jmpIndex == getLabelIndex(ings[1], state)
    IN IF state.numJumps > ings[2].n \/ jmpIndex = -1
       THEN state
       ELSE [state EXCEPT !.progress = jmpIndex, !.numJumps = @ + 1]

\* runJump counting the jump before the test that refuses it.
runJumpCountsFirst(state) ==
    LET ings == state.opList[state.progress + 1].ingValues
        jmpIndex == getLabelIndex(ings[1], state)
    IN IF state.numJumps >= ings[2].n \/ jmpIndex = -1
       THEN [state EXCEPT !.numJumps = @ + 1]
       ELSE [state EXCEPT !.progress = jmpIndex, !.numJumps = @ + 1]

\* runJump (FlowControl.js:185-200).
runJump(state) ==
    LET ings == state.opList[state.progress + 1].ingValues
        label == ings[1]
        maxJumps == ings[2].n
        jmpIndex == getLabelIndex(label, state)
    IN IF state.numJumps >= maxJumps \/ jmpIndex = -1
       THEN state
       ELSE [state EXCEPT !.progress = jmpIndex, !.numJumps = @ + 1]

\* runCondJump up to its await (FlowControl.js:213-228).  got is what
\* dish.get(Dish.STRING) returns.  The function returns the state at 224
\* when the jump is refused and at 236 when regexStr is empty; else it
\* calls .search on what get returned, which throws a TypeError when that
\* is a Promise, and suspends on the index the search found.
CondJumpSearch(state, got) ==
    LET ings == state.opList[state.progress + 1].ingValues
        regexStr == ings[1]
        invert == ings[2].b
        label == ings[3]
        maxJumps == ings[4].n
        jmpIndex == getLabelIndex(label, state)
    IN IF state.numJumps >= maxJumps \/ jmpIndex = -1
       THEN [to |-> "return"]
       ELSE IF regexStr # Str(<<>>)
            THEN IF got = "promise"
                 THEN [to |-> "throw"]
                 ELSE [to |-> "await", invert |-> invert, jmpIndex |-> jmpIndex,
                       strMatch |-> Search(state.dish, regexStr.s)]
            ELSE [to |-> "return"]

\* runCondJump from its await on (FlowControl.js:228-236), search being
\* what CondJumpSearch came to.
runCondJump(state, search) ==
    IF search.to = "await"
    THEN IF (~search.invert /\ search.strMatch) \/ (search.invert /\ ~search.strMatch)
         THEN [state EXCEPT !.progress = search.jmpIndex, !.numJumps = @ + 1]
         ELSE state
    ELSE state

\* runReturn setting the cursor past the length of the list.
runReturnPast(state) == [state EXCEPT !.progress = Len(state.opList) + 1]

\* runReturn (FlowControl.js:249-252).
runReturn(state) == [state EXCEPT !.progress = Len(state.opList)]

\* runComment (FlowControl.js:264-266); a Label runs the same code.
runComment(state) == state

\* runMerge (FlowControl.js:100-104).
runMerge(state) == state

\* let modifiers = ""; if (i) modifiers += "i"; if (m) modifiers += "m"
\* (FlowControl.js:122-124).
Modifiers(i, m) == (IF i THEN {"i"} ELSE {}) \cup (IF m THEN {"m"} ELSE {})

\* The extractor runRegister builds from the Register's ingredients before
\* it suspends on the dish (FlowControl.js:117-126).
Extractor(op) ==
    [source |-> op.ingValues[1].s,
     modifiers |-> Modifiers(op.ingValues[2].b, op.ingValues[3].b)]

\* registers = input.match(extractor) (FlowControl.js:128).
Match(extractor, input) == RegExpExec(extractor.source, extractor.modifiers, input)

\* runRegister counting the whole match as a register
\* (state.numRegisters += registers.length).
runRegisterCountsMatch(state, extractor, input) ==
    LET registers == Match(extractor, input)
        replaceArg(arg) ==
            IF arg.t # "string" /\ arg.t # "object" THEN arg
            ELSE [arg EXCEPT !.s = replaceRegister(arg.s, state.numRegisters, registers)]
        replaceArgs(op) ==
            [op EXCEPT !.ingValues = [a \in 1..Len(@) |-> replaceArg(@[a])]]
    IN IF registers = <<>>
       THEN state
       ELSE [state EXCEPT
                !.opList = [k \in 1..Len(@) |->
                               IF k - 1 >= state.progress + 1 /\ ~@[k].disabled
                               THEN replaceArgs(@[k])
                               ELSE @[k]],
                !.numRegisters = @ + Len(registers)]

\* runRegister leaving the register counter as it was (no +=).
runRegisterKeepsCounter(state, extractor, input) ==
    LET registers == Match(extractor, input)
        replaceArg(arg) ==
            IF arg.t # "string" /\ arg.t # "object" THEN arg
            ELSE [arg EXCEPT !.s = replaceRegister(arg.s, state.numRegisters, registers)]
        replaceArgs(op) ==
            [op EXCEPT !.ingValues = [a \in 1..Len(@) |-> replaceArg(@[a])]]
    IN IF registers = <<>>
       THEN state
       ELSE [state EXCEPT
                !.opList = [k \in 1..Len(@) |->
                               IF k - 1 >= state.progress + 1 /\ ~@[k].disabled
                               THEN replaceArgs(@[k])
                               ELSE @[k]]]

\* runRegister setting the register counter to the number of groups
\* (= for +=).
runRegisterResets(state, extractor, input) ==
    LET registers == Match(extractor, input)
        replaceArg(arg) ==
            IF arg.t # "string" /\ arg.t # "object" THEN arg
            ELSE [arg EXCEPT !.s = replaceRegister(arg.s, state.numRegisters, registers)]
        replaceArgs(op) ==
            [op EXCEPT !.ingValues = [a \in 1..Len(@) |-> replaceArg(@[a])]]
    IN IF registers = <<>>
       THEN state
       ELSE [state EXCEPT
                !.opList = [k \in 1..Len(@) |->
                               IF k - 1 >= state.progress + 1 /\ ~@[k].disabled
                               THEN replaceArgs(@[k])
                               ELSE @[k]],
                !.numRegisters = Len(registers) - 1]

\* runRegister from its await on (FlowControl.js:127-171): extractor is
\* the RegExp built before the await (117-126), input the text the dish gave.
runRegister(state, extractor, input) ==
    LET registers == Match(extractor, input)
        replaceArg(arg) ==
            IF arg.t # "string" /\ arg.t # "object" THEN arg
            ELSE [arg EXCEPT !.s = replaceRegister(arg.s, state.numRegisters, registers)]
        replaceArgs(op) ==
            [op EXCEPT !.ingValues = [a \in 1..Len(@) |-> replaceArg(@[a])]]
    IN IF registers = <<>>
       THEN state
       ELSE [state EXCEPT
                !.opList = [k \in 1..Len(@) |->
                               IF k - 1 >= state.progress + 1 /\ ~@[k].disabled
                               THEN replaceArgs(@[k])
                               ELSE @[k]],
                !.numRegisters = @ + Len(registers) - 1]

(***************************************************************************)
(* Ordinary operations stand for the operations outside this file: Append  *)
(* appends its first ingredient to the dish, FailOn throws when the dish   *)
(* equals its first ingredient and is the identity otherwise.              *)
(***************************************************************************)
OpFails(op, dish) == op.name = "FailOn" /\ dish = op.ingValues[1].s

OpOutput(op, dish) == IF op.name = "Append" THEN dish \o op.ingValues[1].s ELSE dish

Ordinary == {"Append", "FailOn"}

(***************************************************************************)
(* Recipe.execute: the loop over the operation list.  An operation without *)
(* an await of its own is one action: it runs and the loop's i++ follows   *)
(* (progress + 1).  An operation that awaits is one action up to the await *)
(* and one from the await on; between the two the run is suspended and     *)
(* nothing else of the run moves.                                          *)
(***************************************************************************)
Running == status = "run" /\ awaiting.at = "none" /\ Top.progress < Top.len

Dispatch(name) == Running /\ ~CurOp.disabled /\ CurOp.name = name

\* The loop takes the state a flow control operation returned.
Commit(s, act) ==
    /\ stack' = [stack EXCEPT ![Depth] =
                    [@ EXCEPT !.progress = s.progress + 1, !.dish = s.dish]]
    /\ opList' = WriteBack(Top, s.opList)
    /\ numJumps' = s.numJumps
    /\ numRegisters' = s.numRegisters
    /\ forkOffset' = s.forkOffset
    /\ last' = Event(act)
    /\ UNCHANGED <<status, err>>

\* The operation at the cursor threw: the loop lets the failure out with
\* the cursor it happened at, to the enclosing fork if there is one.
Throw(act) ==
    /\ status' = IF Depth = 1 THEN "failed" ELSE "throwing"
    /\ err' = Top.progress
    /\ last' = Event(act)
    /\ UNCHANGED <<stack, opList, numJumps, numRegisters, forkOffset>>

\* The running operation suspends at an await with its locals.
Suspend(locals) ==
    /\ awaiting' = locals
    /\ UNCHANGED <<opList, stack, numJumps, numRegisters, forkOffset, status, err,
                   last, published, unescaped, worker>>

\* ENVIRONMENT_IS_WORKER() (FlowControl.js:132): whether the recipe runs in
\* the worker, where a capture is published; outside a worker nothing is.
\* The environment of the run decides it.
ENVIRONMENT_IS_WORKER == worker

\* The tokens the capture strips the escape of: the tokens, in the textual
\* arguments of the enabled operations after the Register, that are in
\* range and stand behind an odd number of backslashes
\* (FlowControl.js:146-148, 154-166).  Each is recorded with the position
\* in opList of its operation, the ingredient it stands in and its number.
Unescapes(state, registers) ==
    LET inRange(d) == ~(d + 1 <= state.numRegisters
                          \/ d + 1 >= state.numRegisters + Len(registers))
        after == {k \in (state.progress + 2)..Len(state.opList) :
                     ~state.opList[k].disabled}
        args == UNION {{<<k, a>> : a \in {x \in 1..Len(state.opList[k].ingValues) :
                                            state.opList[k].ingValues[x].t
                                                \in {"string", "object"}}} :
                          k \in after}
        text(ka) == state.opList[ka[1]].ingValues[ka[2]].s
        stripped(t) == {q \in TokenStarts(t) :
                           /\ inRange(TokenNum(t, q))
                           /\ SlashesBefore(t, q) % 2 # 0}
    IN IF registers = <<>> THEN {}
       ELSE UNION {{[op |-> Top.lo + ka[1], arg |-> ka[2], d |-> TokenNum(text(ka), q)] :
                       q \in stripped(text(ka))} : ka \in args}

\* self.setRegisters(state.forkOffset + state.progress, ...)
\* (FlowControl.js:132-134), called when the extractor matched.
setRegisters(state, registers) ==
    IF registers # <<>> /\ ENVIRONMENT_IS_WORKER
    THEN {[index |-> state.forkOffset + state.progress,
           numRegisters |-> state.numRegisters,
           registers |-> Tail(registers),
           op |-> Top.lo + Top.progress,
           fork |-> Top.lo - 1]}
    ELSE {}

SkipDisabled ==
    /\ Running
    /\ CurOp.disabled
    /\ stack' = [stack EXCEPT ![Depth].progress = @ + 1]
    /\ last' = Event("Skip")
    /\ UNCHANGED <<opList, numJumps, numRegisters, forkOffset, status, err,
                   published, unescaped, worker, awaiting>>

RunOperation ==
    /\ Running
    /\ ~CurOp.disabled
    /\ CurOp.name \in Ordinary
    /\ IF OpFails(CurOp, Top.dish)
       THEN Throw(CurOp.name)
       ELSE /\ stack' = [stack EXCEPT ![Depth] =
                            [@ EXCEPT !.progress = @ + 1,
                                      !.dish = OpOutput(CurOp, @)]]
            /\ last' = Event(CurOp.name)
            /\ UNCHANGED <<opList, numJumps, numRegisters, forkOffset, status, err>>
    /\ UNCHANGED <<published, unescaped, worker, awaiting>>

RunJump ==
    /\ Dispatch("Jump")
    /\ Commit(runJump(State), "Jump")
    /\ UNCHANGED <<published, unescaped, worker, awaiting>>

\* runCondJump up to its await (FlowControl.js:213-228): it returns, throws
\* or suspends.
RunCondJump ==
    /\ Dispatch("Conditional Jump")
    /\ \E got \in DishGet :
          LET search == CondJumpSearch(State, got)
          IN CASE search.to = "return" ->
                      /\ Commit(runCondJump(State, search), "Conditional Jump")
                      /\ UNCHANGED <<published, unescaped, worker, awaiting>>
               [] search.to = "throw" ->
                      /\ Throw("Conditional Jump")
                      /\ UNCHANGED <<published, unescaped, worker, awaiting>>
               [] search.to = "await" ->
                      Suspend([at |-> "runCondJump:228", search |-> search])

\* runCondJump from its await on (FlowControl.js:228-236).
RunCondJumpResume ==
    /\ status = "run"
    /\ awaiting.at = "runCondJump:228"
    /\ Commit(runCondJump(State, awaiting.search), "Conditional Jump")
    /\ awaiting' = NoAwait
    /\ UNCHANGED <<published, unescaped, worker>>

RunLabel ==
    /\ Dispatch("Label")
    /\ Commit(runComment(State), "Label")
    /\ UNCHANGED <<published, unescaped, worker, awaiting>>

RunComment ==
    /\ Dispatch("Comment")
    /\ Commit(runComment(State), "Comment")
    /\ UNCHANGED <<published, unescaped, worker, awaiting>>

RunMerge ==
    /\ Dispatch("Merge")
    /\ Commit(runMerge(State), "Merge")
    /\ UNCHANGED <<published, unescaped, worker, awaiting>>

RunReturn ==
    /\ Dispatch("Return")
    /\ Commit(runReturn(State), "Return")
    /\ UNCHANGED <<published, unescaped, worker, awaiting>>

\* runRegister up to its await (FlowControl.js:116-127): the extractor is
\* built and the text of the dish asked for.
RunRegisterGet ==
    /\ Dispatch("Register")
    /\ Suspend([at |-> "runRegister:127", extractor |-> Extractor(CurOp),
                input |-> Top.dish])

\* runRegister from its await on (FlowControl.js:127-171).
RunRegister ==
    /\ status = "run"
    /\ awaiting.at = "runRegister:127"
    /\ LET registers == Match(awaiting.extractor, awaiting.input)
       IN /\ Commit(runRegister(State, awaiting.extractor, awaiting.input), "Register")
          /\ published' = published \cup setRegisters(State, registers)
          /\ unescaped' = unescaped \cup Unescapes(State, registers)
    /\ awaiting' = NoAwait
    /\ UNCHANGED worker

\* The outermost run reached the end of its list.
Finish ==
    /\ status = "run"
    /\ awaiting.at = "none"
    /\ Depth = 1
    /\ Top.progress >= Top.len
    /\ status' = "done"
    /\ last' = Event("Finish")
    /\ UNCHANGED <<opList, stack, numJumps, numRegisters, forkOffset, err,
                   published, unescaped, worker, awaiting>>

(***************************************************************************)
(* runFork (FlowControl.js:25-88).                                         *)
(***************************************************************************)
\* The scan for the sub-list stopping at a disabled Merge too.
RECURSIVE SubOpListLenAnyMerge(_, _)
SubOpListLenAnyMerge(ops, i) ==
    IF i >= Len(ops) THEN 0
    ELSE IF ops[i + 1].name = "Merge" THEN 0
         ELSE 1 + SubOpListLenAnyMerge(ops, i + 1)

\* Length of subOpList: the operations after the fork up to the first
\* enabled Merge (FlowControl.js:43-49).
RECURSIVE SubOpListLen(_, _)
SubOpListLen(ops, i) ==
    IF i >= Len(ops) THEN 0
    ELSE IF ops[i + 1].name = "Merge" /\ ~ops[i + 1].disabled THEN 0
         ELSE 1 + SubOpListLen(ops, i + 1)

\* JSON.parse(JSON.stringify(v)) of ingredient values, whose strings,
\* numbers, booleans and {string} objects all survive JSON unchanged.
JsonCopy(ingValues) == ingValues

\* The end of runFork without state.progress += progress.
ForkFinishStays(frame, output, progress) ==
    [frame EXCEPT !.dish = output, !.progress = @ + 1, !.fork = NoFork]

\* The end of runFork (FlowControl.js:85-87), followed by the loop's i++.
ForkFinish(frame, output, progress) ==
    [frame EXCEPT !.dish = output, !.progress = @ + progress + 1, !.fork = NoFork]

\* A tranche loop without the reset of the ingredient values.
BaselineKept(lo, len, ingValues) == opList

\* opList with the ingValues of the operations lo+1 .. lo+len set to the
\* baseline (FlowControl.js:67-69).
Baseline(lo, len, ingValues) ==
    [k \in 1..Len(opList) |->
        IF k > lo /\ k <= lo + len
        THEN [opList[k] EXCEPT !.ingValues = JsonCopy(ingValues[k - lo])]
        ELSE opList[k]]

\* The split without the test of the input: "".split(d) is [""].
ForkInputsSplitsEmpty(input, splitDelim) == Split(input, splitDelim)

\* if (input) inputs = input.split(splitDelim) (FlowControl.js:35-39).
ForkInputs(input, splitDelim) ==
    IF input # <<>> THEN Split(input, splitDelim) ELSE <<>>

\* runFork up to its await (FlowControl.js:25-29): the text of the dish
\* is asked for.
RunForkGet ==
    /\ Dispatch("Fork")
    /\ Suspend([at |-> "runFork:29", input |-> Top.dish])

\* runFork from its first await on: FlowControl.js:29-60, then the first
\* tranche up to the call of recipe.execute (63-75), or 85-87 when there
\* is no tranche.
RunFork ==
    /\ status = "run"
    /\ awaiting.at = "runFork:29"
    /\ LET state == State
           input == awaiting.input
           ings == CurOp.ingValues
           splitDelim == ings[1].s
           mergeDelim == ings[2].s
           ignoreErrors == ings[3].b
           inputs == ForkInputs(input, splitDelim)
           len == SubOpListLen(state.opList, state.progress + 1)
           lo == Top.lo + state.progress + 1
           ingValues == [k \in 1..len |-> JsonCopy(opList[lo + k].ingValues)]
           ctx == [active |-> TRUE, input |-> input, inputs |-> inputs,
                   i |-> 0, output |-> <<>>, progress |-> 0, ingValues |-> ingValues,
                   mergeDelim |-> mergeDelim, ignoreErrors |-> ignoreErrors,
                   results |-> <<>>,
                   entry |-> [k \in 1..len |-> opList[lo + k].ingValues]]
       IN /\ forkOffset' = forkOffset + state.progress + 1
          /\ IF inputs = <<>>
             THEN /\ stack' = [stack EXCEPT ![Depth] = ForkFinish(@, <<>>, 0)]
                  /\ opList' = opList
                  /\ last' = [Event("ForkDone") EXCEPT !.fork = ctx]
             ELSE /\ stack' = [stack EXCEPT ![Depth].fork = ctx]
                                 \o <<Frame(lo, len, inputs[1])>>
                  /\ opList' = Baseline(lo, len, ingValues)
                  /\ last' = Event("Fork")
    /\ awaiting' = NoAwait
    /\ UNCHANGED <<numJumps, numRegisters, status, err, published, unescaped, worker>>

\* The outputs joined by mergeDelim, none after the last.
TrancheOutputJoined(output, dish, mergeDelim) ==
    IF output = <<>> THEN dish ELSE output \o mergeDelim \o dish

\* output += await dish.get(outputType) + mergeDelim (FlowControl.js:82).
TrancheOutput(output, dish, mergeDelim) == output \o dish \o mergeDelim

\* recipe.execute returned (FlowControl.js:75): the sub-run reached the end
\* of the sub-list.  progress is assigned and the value of the tranche's
\* dish asked for (82).
TrancheReturn ==
    /\ status = "run"
    /\ awaiting.at = "none"
    /\ Depth > 1
    /\ Top.progress >= Top.len
    /\ Suspend([at |-> "runFork:82", progress |-> Top.len, value |-> Top.dish,
                failed |-> FALSE])

\* A catch that rethrows whatever ignoreErrors says.
RethrowsAlways(ignoreErrors) == TRUE

\* A catch that never rethrows.
RethrowsNever(ignoreErrors) == FALSE

\* if (!ignoreErrors) throw err (FlowControl.js:77-79).
Rethrows(ignoreErrors) == ~ignoreErrors

\* recipe.execute threw (FlowControl.js:76-82): the failure is thrown on,
\* or it is caught, progress is assigned and the value of the tranche's
\* dish asked for.
TrancheFail ==
    /\ status = "throwing"
    /\ Depth > 1
    /\ IF ~Rethrows(stack[Depth - 1].fork.ignoreErrors)
       THEN /\ awaiting' = [at |-> "runFork:82", progress |-> err + 1,
                            value |-> Top.dish, failed |-> TRUE]
            /\ status' = "run"
            /\ last' = Event("Catch")
            /\ UNCHANGED <<stack, opList, err>>
       ELSE /\ stack' = SubSeq(stack, 1, Depth - 2)
                           \o <<[stack[Depth - 1] EXCEPT !.fork = NoFork]>>
            /\ opList' = opList
            /\ status' = IF Depth = 2 THEN "failed" ELSE "throwing"
            /\ err' = stack[Depth - 1].progress
            /\ last' = [Event("ForkAbort") EXCEPT !.fork = stack[Depth - 1].fork]
            /\ UNCHANGED awaiting
    /\ UNCHANGED <<numJumps, numRegisters, forkOffset, published, unescaped, worker>>

\* runFork from the await of a tranche's value on (FlowControl.js:82): the
\* output grows, then the next tranche is set up to the call of
\* recipe.execute (63-75), or runFork ends (85-87).
AfterTranche ==
    /\ status = "run"
    /\ awaiting.at = "runFork:82"
    /\ LET parent == stack[Depth - 1]
           child == Top
           ctx == parent.fork
           progress == awaiting.progress
           act == IF awaiting.failed THEN "TrancheFail" ELSE "Tranche"
           output == TrancheOutput(ctx.output, awaiting.value, ctx.mergeDelim)
           i == ctx.i + 1
           next == [ctx EXCEPT !.i = i, !.output = output, !.progress = progress,
                               !.results = Append(@, [value |-> awaiting.value,
                                                      progress |-> progress,
                                                      failed |-> awaiting.failed])]
       IN IF i < Len(ctx.inputs)
          THEN /\ stack' = SubSeq(stack, 1, Depth - 2)
                              \o <<[parent EXCEPT !.fork = next],
                                   Frame(child.lo, child.len, ctx.inputs[i + 1])>>
               /\ opList' = Baseline(child.lo, child.len, ctx.ingValues)
               /\ last' = [Event(act) EXCEPT !.fork = next]
          ELSE /\ stack' = SubSeq(stack, 1, Depth - 2)
                              \o <<ForkFinish(parent, output, progress)>>
               /\ opList' = opList
               /\ last' = [Event("ForkDone") EXCEPT !.fork = next]
    /\ awaiting' = NoAwait
    /\ UNCHANGED <<numJumps, numRegisters, forkOffset, status, err, published, unescaped, worker>>

Next ==
    \/ SkipDisabled
    \/ RunOperation
    \/ RunJump
    \/ RunCondJump
    \/ RunCondJumpResume
    \/ RunLabel
    \/ RunComment
    \/ RunMerge
    \/ RunReturn
    \/ RunRegisterGet
    \/ RunRegister
    \/ RunForkGet
    \/ RunFork
    \/ TrancheReturn
    \/ TrancheFail
    \/ AfterTranche
    \/ Finish

(***************************************************************************)
(* Recipes.                                                                *)
(***************************************************************************)
Label(name, disabled) == MkOp("Label", disabled, <<Str(name)>>)
Jump(label, maxJumps) == MkOp("Jump", FALSE, <<Str(label), Num(maxJumps)>>)
CondJump(regexStr, invert, label, maxJumps) ==
    MkOp("Conditional Jump", FALSE,
         <<Str(regexStr), Bool(invert), Str(label), Num(maxJumps)>>)
Fork(splitDelim, mergeDelim, ignoreErrors) ==
    MkOp("Fork", FALSE, <<Str(splitDelim), Str(mergeDelim), Bool(ignoreErrors)>>)
Merge(disabled) == MkOp("Merge", disabled, <<>>)
RegisterOp(extractorStr, i, m) ==
    MkOp("Register", FALSE, <<Str(extractorStr), Bool(i), Bool(m)>>)
\* A Register with the flags as the operation declares them by default.
Register(extractorStr) == RegisterOp(extractorStr, TRUE, FALSE)
Return == MkOp("Return", FALSE, <<>>)
Comment(disabled) == MkOp("Comment", disabled, <<Str(<<"n", "b">>)>>)
AppendOp(arg, disabled) == MkOp("Append", disabled, <<arg>>)
FailOn(text) == MkOp("FailOn", FALSE, <<Str(text)>>)

\* All sequences over S of length 0 .. n.
SeqsUpTo(S, n) == UNION {[1..k -> S] : k \in 0..n}

Repeat(c, k) == [j \in 1..k |-> c]

\* Jumps, labels and the operations around them.
JumpOps ==
    {Label(<<"a">>, FALSE), Label(<<"a">>, TRUE), Label(<<"b">>, FALSE),
     Comment(FALSE), AppendOp(Str(<<"x">>), FALSE), Return,
     Jump(<<"b">>, 1)}
    \cup {Jump(<<"a">>, m) : m \in 0..MaxBudget}
    \cup {CondJump(pat, inv, <<"a">>, MaxBudget) :
            pat \in {<<>>, <<"x">>, <<"x", "x">>}, inv \in BOOLEAN}

JumpRecipes == [1..3 -> JumpOps]

\* A Label, a body, an unconditional Jump back to the Label, and a tail.
LoopBody ==
    {Comment(FALSE), Comment(TRUE), AppendOp(Str(<<"x">>), FALSE),
     Label(<<"b">>, FALSE)}

LoopRecipes ==
    {pre \o <<Label(<<"a">>, FALSE)>> \o body \o <<Jump(<<"a">>, m)>> \o tail :
        pre \in SeqsUpTo({Comment(FALSE)}, 1),
        body \in SeqsUpTo(LoopBody, 2),
        m \in 0..MaxBudget,
        tail \in SeqsUpTo({AppendOp(Str(<<"z">>), FALSE)}, 1)}

\* Register captures and the texts they rewrite.
Extractors ==
    {<<"(", ".", ")", "(", ".", ")">>,
     <<"(", ".", ")", "(", ".", ")", "(", ".", ")">>,
     <<"(", ".", ")">>, <<".">>, <<>>, <<"q">>,
     <<"(", ".", ".", ")", "-", "(", ".", ".", ")">>}

RegNums == {<<"0">>, <<"1">>, <<"2">>, <<"3">>, <<"4">>, <<"5">>, <<"9", "9">>,
            <<"0", "1">>, <<"1", "0">>}

Tokens == {Repeat("\\", k) \o <<"$", "R">> \o d : k \in 0..MaxSlashes, d \in RegNums}

TokenTexts ==
    Tokens
    \cup {<<"$", "R", "0", " ", "t", "o", " ", "$", "R", "1">>,
          <<"$", "R", "1", "\\", "$", "R", "0", "$", "R", "2">>}

RegisterTargets ==
    {AppendOp(Str(t), FALSE) : t \in TokenTexts}
    \cup {AppendOp(Obj(t), FALSE) : t \in Tokens}
    \cup {AppendOp(Str(t), TRUE) : t \in {<<"$", "R", "0">>}}
    \cup {MkOp("Comment", FALSE, <<Num(1), Bool(TRUE), Str(<<"$", "R", "1">>)>>),
          MkOp("Comment", FALSE,
               <<Num(1), Str(<<"a">>), Bool(FALSE), Num(4),
                 Obj(<<"\\", "$", "R", "0">>), Str(<<"\\", "$", "R", "1">>),
                 Str(<<"$", "R", "0">>)>>)}

Second ==
    SeqsUpTo({Register(<<"(", ".", ")", "(", ".", ")", "(", ".", ")">>),
              Register(<<"(", ".", ")">>)}, 1)

RegisterRecipes ==
    {<<Register(e)>> \o more \o <<target>> :
        e \in Extractors, more \in Second, target \in RegisterTargets}
    \cup {<<Register(<<"(", ".", ")", "(", ".", ")">>)>> \o more
              \o <<AppendOp(Str(t), FALSE)>> :
            more \in Second, t \in SeqsUpTo({"\\", "$", "R", "0", "1"}, MaxText)}

\* Forks, their sub-lists and what follows the Merge.
SubOps ==
    {Comment(FALSE), AppendOp(Str(<<"x">>), FALSE), FailOn(<<"b">>), Return,
     Merge(TRUE), Register(<<"(", ".", ")">>), AppendOp(Str(<<"$", "R", "0">>), FALSE),
     Label(<<"a">>, FALSE), Jump(<<"a">>, 1)}

ForkRecipes ==
    {<<Fork(<<",">>, md, ig)>> \o sub \o end :
        md \in {<<";">>, <<>>},
        ig \in BOOLEAN,
        sub \in SeqsUpTo(SubOps, 2),
        end \in {<<>>, <<Merge(FALSE)>>, <<Merge(FALSE), AppendOp(Str(<<"z">>), FALSE)>>}}

\* Forks inside forks, and a fork inside a loop.
NestedRecipes ==
    {<<Fork(<<",">>, <<";">>, ig1), Fork(<<"-">>, <<"+">>, ig2), op, Merge(FALSE),
       AppendOp(Str(<<"z">>), FALSE)>> :
        ig1 \in BOOLEAN, ig2 \in BOOLEAN,
        op \in {FailOn(<<"b">>), AppendOp(Str(<<"x">>), FALSE)}}
    \cup {<<Label(<<"a">>, FALSE), Fork(<<",">>, <<";">>, ig), op, Merge(FALSE),
            Jump(<<"a">>, m)>> :
            ig \in BOOLEAN, m \in 0..MaxBudget,
            op \in {FailOn(<<"b">>), AppendOp(Str(<<"x">>), FALSE)}}

\* A capture of two groups repeated by a loop, in front of escaped tokens.
LongRecipes ==
    {<<Label(<<"a">>, FALSE), Register(<<"(", ".", ")", "(", ".", ")">>),
       Jump(<<"a">>, LongBudget), AppendOp(Str(<<"\\", "$", "R">> \o d), FALSE)>> :
        d \in {<<"1", "0", "0">>, <<"9", "9">>, <<"1", "$", "R", "0">>}}

\* Captures before, inside and after forks: a fork in a loop, a fork in a
\* fork, two forks in a row, a jump from behind the Merge into the
\* sub-list, a last tranche that fails and is ignored.
PublishRecipes ==
    {<<Label(<<"a">>, FALSE), Fork(<<",">>, <<";">>, FALSE), Comment(FALSE),
       Comment(FALSE), Register(<<"(", ".", ")">>), Merge(FALSE),
       Register(<<"(", ".", ")">>), Jump(<<"a">>, m)>> : m \in 0..MaxBudget}
    \cup {<<Fork(<<",">>, <<";">>, FALSE), Register(<<"(", ".", ")">>),
            Fork(<<"-">>, <<"+">>, FALSE), Register(<<"(", ".", ")">>), Merge(FALSE)>>,
          <<Register(<<"(", ".", ")">>), Fork(<<",">>, <<";">>, FALSE),
            Register(<<"(", ".", ")">>), Merge(FALSE), Register(<<"(", ".", ")">>)>>,
          <<Fork(<<",">>, <<";">>, FALSE), Register(<<"(", ".", ")">>), Merge(FALSE),
            Fork(<<";">>, <<",">>, FALSE), Comment(FALSE), Register(<<"(", ".", ")">>),
            Merge(FALSE)>>,
          <<Fork(<<",">>, <<";">>, FALSE), Label(<<"a">>, FALSE),
            Register(<<"(", ".", ")">>), Register(<<"(", ".", ")">>), Merge(FALSE),
            Jump(<<"a">>, 1)>>,
          <<Fork(<<",">>, <<";">>, TRUE), FailOn(<<"b">>), Register(<<"(", ".", ")">>),
            Register(<<"(", ".", ")">>)>>}

\* Captures and searches where the flags, the line terminators, the
\* assertions and nested groups decide the match.
FlagExtractors ==
    {<<"(", "q", ")">>, <<"(", "A", ")">>, <<"(", ".", ")">>,
     <<"^", "(", "b", ")">>, <<"(", "a", ")", "$">>,
     <<"(", "(", "a", ")", ".", ")">>}

FlagRecipes ==
    {<<RegisterOp(e, i, mm), AppendOp(Str(<<"$", "R", "0", "$", "R", "1">>), FALSE)>> :
        e \in FlagExtractors, i \in BOOLEAN, mm \in BOOLEAN}
    \cup {<<Label(<<"a">>, FALSE), CondJump(pat, inv, <<"a">>, 1)>> :
            pat \in {<<".">>, <<"q">>, <<"^", "b">>, <<"(", ".", ")">>},
            inv \in BOOLEAN}

FlagInputs ==
    {<<"Q">>, <<"\n">>, <<"\r">>, <<"\n", "a">>, <<"a", "\n", "b", "Q">>,
     <<"A", "b">>}

Inputs(recipe) ==
    IF recipe \in FlagRecipes THEN FlagInputs
    ELSE IF recipe \in LongRecipes THEN {<<"1", "2", "-", "3", "4">>}
    ELSE IF recipe \in PublishRecipes THEN {<<"a", ",", "b">>}
    ELSE IF recipe \in RegisterRecipes
    THEN {<<"1", "2", "-", "3", "4">>, <<"7">>}
    ELSE IF recipe \in ForkRecipes \cup NestedRecipes
         THEN {<<>>, <<"a">>, <<"a", ",", "b", ",", "c">>, <<"b", ",", "a", "-", "b">>,
               <<"a", ",">>}
         ELSE {<<>>, <<"x">>}

Recipes == JumpRecipes \cup LoopRecipes \cup RegisterRecipes \cup ForkRecipes
               \cup NestedRecipes \cup LongRecipes \cup PublishRecipes
               \cup FlagRecipes

Start(recipes) ==
    /\ opList \in recipes
    /\ \E input \in Inputs(opList) :
          /\ stack = <<Frame(0, Len(opList), input)>>
          /\ last = [act |-> "Init", depth |-> 1, progress |-> 0, dish |-> input,
                     numJumps |-> 0, numRegisters |-> 0, forkOffset |-> 0,
                     unescaped |-> {}, lo |-> 0,
                     len |-> Len(opList), opList |-> opList, fork |-> NoFork]
    /\ numJumps = 0
    /\ numRegisters = 0
    /\ forkOffset = 0
    /\ published = {}
    /\ unescaped = {}
    /\ awaiting = NoAwait
    /\ worker \in BOOLEAN
    /\ status = "run"
    /\ err = 0

Init == Start(Recipes)

Spec == Init /\ [][Next]_vars

\* Termination is checked over the recipes with jumps and forks.  The loop
\* of execute and the tranche loop of runFork run to completion: no step
\* waits for anything outside the run, hence the weak fairness of Next.
LiveRecipes == JumpRecipes \cup LoopRecipes \cup ForkRecipes \cup NestedRecipes

SpecLive == Start(LiveRecipes) /\ [][Next]_vars /\ WF_vars(Next)

(***************************************************************************)
(* Properties.                                                             *)
(***************************************************************************)
Stopped == status \in {"done", "failed"}

\* C1: every run eventually stops: the cursor of the outermost run reaches
\* the end of the list or a failure propagates out of it; no run takes
\* jumps forever, whatever the labels, the budgets and the forks around
\* the jumps.
C1_Termination == <>Stopped

\* A run that took jumps up to a budget, inside or around a fork, and ended.
C1_Witness ==
    /\ status = "done"
    /\ numJumps = MaxBudget
    /\ \E k \in 1..Len(opList) : opList[k].name = "Fork"
    /\ \E k \in 1..Len(opList) : opList[k].name = "Jump"

(***************************************************************************)
(* What the step taken last started from.                                  *)
(***************************************************************************)
\* The operation list of the run that took the step, before the step.
PreOps == SubSeq(last.opList, last.lo + 1, last.lo + last.len)

\* The operation the step ran.
PreOp == PreOps[last.progress + 1]

\* state.progress as the operation returned it; the loop then added 1.
Returned == Top.progress - 1

\* The indices (0-based) of the Label operations of ops that carry name.
LabelsNamed(name, ops) ==
    {o \in 0..(Len(ops) - 1) :
        ops[o + 1].name = "Label" /\ ops[o + 1].ingValues[1] = name}

Least(S) == CHOOSE x \in S : \A y \in S : x <= y

\* text occurs in s.
Contains(s, text) ==
    \E p \in 1..(Len(s) + 1) :
        p + Len(text) - 1 <= Len(s) /\ SubSeq(s, p, p + Len(text) - 1) = text

(***************************************************************************)
(* C2.                                                                     *)
(***************************************************************************)
\* The recipe's only jump is an enabled unconditional Jump whose Label
\* stands before it, among operations that neither fail nor end the run.
SelfLoop(ops) ==
    /\ \A k \in 1..Len(ops) : ops[k].name \in {"Label", "Jump", "Comment", "Append"}
    /\ Cardinality({k \in 1..Len(ops) : ops[k].name = "Jump"}) = 1
    /\ LET j == CHOOSE k \in 1..Len(ops) : ops[k].name = "Jump"
       IN /\ ~ops[j].disabled
          /\ \E l \in 1..(j - 1) :
                /\ ops[l].name = "Label"
                /\ ~ops[l].disabled
                /\ ops[l].ingValues[1] = ops[j].ingValues[1]

\* C2: in a run of a recipe whose only jump is an unconditional Jump to a
\* Label before itself, started with jump counter 0, the Jump with budget m
\* is taken exactly m times: each of the first m times it runs it moves the
\* cursor to the Label, the next time it leaves the cursor alone, so the
\* run goes on with the operation after the Jump, and the run ends with m
\* jumps taken.
C2_SelfLoopBudget ==
    SelfLoop(opList) =>
        LET j == CHOOSE k \in 1..Len(opList) : opList[k].name = "Jump"
            m == opList[j].ingValues[2].n
            target == Least(LabelsNamed(opList[j].ingValues[1], opList))
        IN /\ numJumps <= m
           /\ status # "failed"
           /\ status = "done" => numJumps = m
           /\ last.act = "Jump" =>
                 IF last.numJumps < m
                 THEN numJumps = last.numJumps + 1 /\ Returned = target
                 ELSE numJumps = m /\ Returned = j - 1 /\ Top.progress = j

\* A loop with the largest budget fell through and ended.
C2_Witness ==
    /\ SelfLoop(opList)
    /\ status = "done"
    /\ numJumps = MaxBudget
    /\ \E k \in 1..Len(opList) :
          opList[k].name = "Jump" /\ opList[k].ingValues[2].n = MaxBudget

(***************************************************************************)
(* C3.                                                                     *)
(***************************************************************************)
\* The Jump that ran last found its budget used up or no Label of its name.
JumpRefused ==
    /\ last.act = "Jump"
    /\ \/ last.numJumps >= PreOp.ingValues[2].n
       \/ LabelsNamed(PreOp.ingValues[1], PreOps) = {}

\* C3: a Jump that runs with the jump counter already at maxJumps or above,
\* or whose label does not resolve, raises no error and changes neither the
\* cursor, the jump counter, the register counter, the dish nor any
\* operation's ingredient values; the run goes on with the next operation.
C3_JumpSoftFail ==
    JumpRefused =>
        /\ status = "run"
        /\ Depth = last.depth
        /\ Returned = last.progress
        /\ numJumps = last.numJumps
        /\ numRegisters = last.numRegisters
        /\ Top.dish = last.dish
        /\ opList = last.opList

\* A Jump refused for its budget, after jumps were taken, with its Label there.
C3_Witness ==
    /\ JumpRefused
    /\ last.numJumps >= 1
    /\ last.numJumps >= PreOp.ingValues[2].n
    /\ LabelsNamed(PreOp.ingValues[1], PreOps) # {}

(***************************************************************************)
(* C4.                                                                     *)
(***************************************************************************)
\* The lowest index of an enabled Label named name, or -1.
FirstEnabledLabel(name, ops) ==
    LET enabled == {o \in LabelsNamed(name, ops) : ~ops[o + 1].disabled}
    IN IF enabled = {} THEN -1 ELSE Least(enabled)

JumpRan == last.act \in {"Jump", "Conditional Jump"}

JumpLabel == IF last.act = "Jump" THEN PreOp.ingValues[1] ELSE PreOp.ingValues[3]

\* C4: the resolver returns the lowest index, anywhere in the list, of an
\* enabled Label of the requested name and -1 when there is none; a
\* disabled Label is never returned and never the target of a jump.
C4_LabelResolution ==
    JumpRan =>
        /\ getLabelIndex(JumpLabel, [opList |-> PreOps])
               = FirstEnabledLabel(JumpLabel, PreOps)
        /\ numJumps = last.numJumps + 1 =>
               Returned = FirstEnabledLabel(JumpLabel, PreOps)

(***************************************************************************)
(* C5.                                                                     *)
(***************************************************************************)
\* C5: a Conditional Jump moves the cursor to the resolved label index and
\* adds 1 to the jump counter exactly when the jump counter is below
\* maxJumps, the label resolves, the pattern is not empty and "the dish
\* matches the pattern" differs from invert; otherwise cursor and jump
\* counter stay as they were.  No error is raised either way.
\* The run does not satisfy it: where the pattern is searched for, the
\* search is called on what dish.get returns (FlowControl.js:228), and
\* that throws when get returns a Promise.
C5_CondJump ==
    last.act = "Conditional Jump" =>
        LET ings == PreOp.ingValues
            pattern == ings[1].s
            invert == ings[2].b
            labels == LabelsNamed(ings[3], PreOps)
            jumps == /\ last.numJumps < ings[4].n
                     /\ labels # {}
                     /\ pattern # <<>>
                     /\ Search(last.dish, pattern) # invert
        IN /\ status = "run"
           /\ Depth = last.depth
           /\ IF jumps
              THEN Returned = Least(labels) /\ numJumps = last.numJumps + 1
              ELSE Returned = last.progress /\ numJumps = last.numJumps

(***************************************************************************)
(* C6, C7, C8: the Register operation that ran last.                       *)
(***************************************************************************)
\* The operation list of the run that took the step, after the step.
PostOps == SubSeq(opList, last.lo + 1, last.lo + last.len)

\* What the extractor matched in the dish: <<>> for no match, else the
\* whole match followed by the groups.
Captured == Match(Extractor(PreOp), last.dish)

RegisterMatched == last.act = "Register" /\ Captured # <<>>

\* n registers before the capture, g groups captured.
CapturedN == last.numRegisters
CapturedG == Len(Captured) - 1

\* The textual arguments the capture rewrites: <<k, a>> for ingredient a,
\* a string or a structured value with a string field, of the enabled
\* operation k (1-based) after the Register.
TextArgs ==
    UNION {{<<k, a>> : a \in {x \in 1..Len(PreOps[k].ingValues) :
                                    PreOps[k].ingValues[x].t \in {"string", "object"}}} :
              k \in {x \in 1..Len(PreOps) :
                        x > last.progress + 1 /\ ~PreOps[x].disabled}}

Before(ka) == PreOps[ka[1]].ingValues[ka[2]].s
After(ka) == PostOps[ka[1]].ingValues[ka[2]].s

DigitChar(d) ==
    CASE d = 0 -> "0" [] d = 1 -> "1" [] d = 2 -> "2" [] d = 3 -> "3"
      [] d = 4 -> "4" [] d = 5 -> "5" [] d = 6 -> "6" [] d = 7 -> "7"
      [] d = 8 -> "8" [] d = 9 -> "9"

\* The text $Rd.
Ref(d) ==
    <<"$", "R">> \o (IF d < 10 THEN <<DigitChar(d)>>
                     ELSE IF d < 100 THEN <<DigitChar(d \div 10), DigitChar(d % 10)>>
                     ELSE <<DigitChar(d \div 100), DigitChar((d \div 10) % 10),
                            DigitChar(d % 10)>>)

\* $Rd names one of the registers just captured.
JustCaptured(d) == CapturedN < d + 1 /\ d + 1 <= CapturedN + CapturedG

\* C6 as claimed: a Register that matches with g groups when the register
\* counter is n rewrites a downstream $R(n + k - 1) to group k, for every k
\* in 1 .. g, and leaves the counter at n + g; a Register that does not
\* match leaves the counter and every ingredient value as they were.
C6_AsClaimed ==
    last.act = "Register" =>
        IF Captured = <<>>
        THEN numRegisters = CapturedN /\ opList = last.opList
        ELSE /\ numRegisters = CapturedN + CapturedG
             /\ \A ka \in TextArgs : \A k \in 1..CapturedG :
                   Before(ka) = Ref(CapturedN + k - 1) => After(ka) = Captured[k + 1]

\* C6, amended: the same, for the registers whose index n + k - 1 has at
\* most two digits (a token carries at most two digits, so $R100 is $R10
\* followed by 0 and the registers from 100 on cannot be addressed).
C6_RegisterNumbering ==
    last.act = "Register" =>
        IF Captured = <<>>
        THEN numRegisters = CapturedN /\ opList = last.opList
        ELSE /\ numRegisters = CapturedN + CapturedG
             /\ \A ka \in TextArgs : \A k \in 1..CapturedG :
                   (CapturedN + k - 1 <= 99 /\ Before(ka) = Ref(CapturedN + k - 1))
                       => After(ka) = Captured[k + 1]

\* After a capture of 2 groups from 0, a capture of 3 groups made $R4 its
\* third group and left the counter at 5.
C6_Witness ==
    /\ RegisterMatched
    /\ CapturedN = 2
    /\ CapturedG = 3
    /\ numRegisters = 5
    /\ \E ka \in TextArgs : Before(ka) = Ref(4) /\ After(ka) = Captured[4]

\* C7: a capture rewrites a token $Rd of a downstream textual argument only
\* if n < d + 1 <= n + g.  A text whose tokens all lie outside that range
\* comes out character for character as it went in, backslashes included,
\* and so does the text up to the end of its first token when that token
\* lies outside the range.
C7_OutOfRangeVerbatim ==
    RegisterMatched =>
        \A ka \in TextArgs :
            LET t == Before(ka)
                starts == TokenStarts(t)
            IN /\ (\A q \in starts : ~JustCaptured(TokenNum(t, q))) => After(ka) = t
               /\ starts # {} =>
                     LET q == Least(starts)
                         e == TokenEnd(t, q)
                     IN ~JustCaptured(TokenNum(t, q)) =>
                            /\ Len(After(ka)) >= e
                            /\ SubSeq(After(ka), 1, e) = SubSeq(t, 1, e)

\* With 2 registers captured, an escaped $R99 stayed as it was.
C7_Witness ==
    /\ RegisterMatched
    /\ CapturedN = 0
    /\ CapturedG = 2
    /\ \E ka \in TextArgs :
          /\ Before(ka) = <<"\\">> \o Ref(99)
          /\ After(ka) = Before(ka)

\* C8: a token ($R and its one or two digits) of a just-captured register
\* behind an even number of backslashes (zero included) becomes those
\* backslashes and the captured value; behind an odd number it becomes the
\* backslashes less one and the literal $Rd, and the value is not inserted.
\* With captures "12" and "34",
\* "$R0 to $R1" becomes "12 to 34" and "\$R0" becomes "$R0".
C8_EscapingLaw ==
    RegisterMatched =>
        \A ka \in TextArgs :
            /\ \A j \in 0..Len(Before(ka)) : \A k \in 1..CapturedG :
                  LET d == CapturedN + k - 1
                  IN (d <= 99 /\ Before(ka) = Repeat("\\", j) \o Ref(d)) =>
                        After(ka) = IF j % 2 = 0
                                    THEN Repeat("\\", j) \o Captured[k + 1]
                                    ELSE Repeat("\\", j - 1) \o Ref(d)
            /\ (CapturedN = 0 /\ Tail(Captured) = <<<<"1", "2">>, <<"3", "4">>>>) =>
                  /\ Before(ka) = Ref(0) \o <<" ", "t", "o", " ">> \o Ref(1) =>
                        After(ka) = <<"1", "2", " ", "t", "o", " ", "3", "4">>
                  /\ Before(ka) = <<"\\">> \o Ref(0) => After(ka) = Ref(0)

\* The captures "12" and "34" turned "\\\$R1" into "\\$R1".
C8_Witness ==
    /\ RegisterMatched
    /\ CapturedN = 0
    /\ Tail(Captured) = <<<<"1", "2">>, <<"3", "4">>>>
    /\ \E ka \in TextArgs :
          /\ Before(ka) = Repeat("\\", 3) \o Ref(1)
          /\ After(ka) = Repeat("\\", 2) \o Ref(1)

(***************************************************************************)
(* C9, C10: the Fork that ended or failed last.                            *)
(***************************************************************************)
\* A tranche's sub-run was on top of the stack when the step was taken.
FromTranche == last.depth > Depth

\* The Fork operation the step belongs to.
ForkOp == IF FromTranche THEN opList[last.lo] ELSE PreOp

\* The sub-list the tranches ran.
SubList == IF FromTranche THEN SubSeq(opList, last.lo + 1, last.lo + last.len) ELSE <<>>

\* Each text followed by delim, in order.
RECURSIVE EachFollowedBy(_, _)
EachFollowedBy(texts, delim) ==
    IF texts = <<>> THEN <<>>
    ELSE Head(texts) \o delim \o EachFollowedBy(Tail(texts), delim)

\* The pieces of a text split on the character c, in order.
RECURSIVE PiecesOf(_, _)
PiecesOf(text, c) ==
    LET cuts == {p \in 1..Len(text) : text[p] = c}
    IN IF cuts = {} THEN <<text>>
       ELSE <<SubSeq(text, 1, Least(cuts) - 1)>>
                \o PiecesOf(SubSeq(text, Least(cuts) + 1, Len(text)), c)

\* The tranche inputs of a Fork on input: none for an empty value.
Tranches(input, c) == IF input = <<>> THEN <<>> ELSE PiecesOf(input, c)

ForkEnded == last.act = "ForkDone"

AllSucceeded == \A r \in 1..Len(last.fork.results) : ~last.fork.results[r].failed

\* C9: when every tranche succeeds, the Fork writes to the outer dish each
\* tranche's result followed by one mergeDelimiter, in tranche order: one
\* result per piece of the input, a delimiter after the last one too.
\* "a,b,c" split on "," through a sub-list that changes nothing and merged
\* with ";" gives "a;b;c;".
C9_ForkOutput ==
    (ForkEnded /\ AllSucceeded) =>
        LET results == [r \in 1..Len(last.fork.results) |-> last.fork.results[r].value]
            splitDelim == ForkOp.ingValues[1].s
            mergeDelim == ForkOp.ingValues[2].s
            identity == \A k \in 1..Len(SubList) :
                            SubList[k].name = "Comment" \/ SubList[k].disabled
        IN /\ Top.dish = EachFollowedBy(results, mergeDelim)
           /\ Len(splitDelim) = 1 =>
                 /\ Len(results) = Len(Tranches(last.fork.input, splitDelim[1]))
                 /\ identity => results = Tranches(last.fork.input, splitDelim[1])
           /\ (/\ identity
               /\ last.fork.input = <<"a", ",", "b", ",", "c">>
               /\ splitDelim = <<",">>
               /\ mergeDelim = <<";">>) =>
                 Top.dish = <<"a", ";", "b", ";", "c", ";">>

\* "a,b,c" went through a sub-list of Comments and came out as "a;b;c;".
C9_Witness ==
    /\ ForkEnded
    /\ AllSucceeded
    /\ last.fork.input = <<"a", ",", "b", ",", "c">>
    /\ Len(SubList) >= 1
    /\ \A k \in 1..Len(SubList) : SubList[k].name = "Comment"
    /\ Top.dish = <<"a", ";", "b", ";", "c", ";">>

\* The step took a failed tranche into the output and went on.
Absorbed ==
    /\ last.act \in {"TrancheFail", "ForkDone"}
    /\ FromTranche \/ last.act = "TrancheFail"
    /\ last.fork.results # <<>>
    /\ last.fork.results[Len(last.fork.results)].failed

\* The step let a tranche's failure out of its Fork.
Aborted == last.act = "ForkAbort"

\* C10: when the sub-list fails on a tranche of a Fork whose ignoreErrors is
\* not set, the Fork does not absorb the failure: it fails at once, no later
\* tranche runs, the outer dish keeps the value it had before the Fork and
\* the outer cursor stays on the Fork.
C10_ForkAbort ==
    /\ Absorbed => opList[last.lo].ingValues[3].b
    /\ Aborted =>
          /\ ~opList[last.lo].ingValues[3].b
          /\ status \in {"throwing", "failed"}
          /\ Depth = last.depth - 1
          /\ ~Top.fork.active
          /\ Top.dish = last.fork.input
          /\ Top.lo + Top.progress + 1 = last.lo
          /\ opList[Top.lo + Top.progress + 1].name = "Fork"

\* A Fork failed on its second tranche of three, with output gathered from
\* the first.
C10_Witness ==
    /\ Aborted
    /\ last.fork.i = 1
    /\ Len(last.fork.inputs) = 3
    /\ last.fork.output # <<>>
    /\ Top.dish = <<"a", ",", "b", ",", "c">>

(***************************************************************************)
(* C11.                                                                    *)
(***************************************************************************)
\* The values the tranches of the Fork ended with so far, in order.
TrancheValues == [r \in 1..Len(last.fork.results) |-> last.fork.results[r].value]

\* C11: a Fork whose ignoreErrors is set never lets a tranche's failure out,
\* whether an operation of the sub-list failed or a Fork nested in it gave
\* up.  The failed tranche adds the value its dish held when it failed and
\* one mergeDelimiter to the output, the run goes on, the next piece of the
\* input is run from the start of the sub-list, and after the last piece
\* the output, one entry per piece, is written to the outer dish.
C11_ForkIgnoreErrors ==
    /\ Aborted => ~opList[last.lo].ingValues[3].b
    /\ Absorbed =>
          LET ctx == last.fork
              n == Len(ctx.results)
          IN /\ status = "run"
             /\ ctx.results[n].value = last.dish
             /\ ctx.output = EachFollowedBy(TrancheValues, opList[last.lo].ingValues[2].s)
             /\ IF n < Len(ctx.inputs)
                THEN /\ Depth = last.depth
                     /\ Top.lo = last.lo
                     /\ Top.len = last.len
                     /\ Top.progress = 0
                     /\ Top.dish = ctx.inputs[n + 1]
                ELSE /\ Depth = last.depth - 1
                     /\ ~Top.fork.active
                     /\ Top.dish = ctx.output
    /\ (ForkEnded /\ FromTranche) => Len(last.fork.results) = Len(last.fork.inputs)

\* A Fork took in the failure of a Fork nested in its first tranche and
\* started its second tranche.
C11_Witness ==
    /\ Absorbed
    /\ Depth = last.depth
    /\ Len(last.fork.results) = 1
    /\ opList[last.lo + err + 1].name = "Fork"
    /\ ~opList[last.lo + err + 1].ingValues[3].b

(***************************************************************************)
(* C12, C13: the ingredient values around a Fork.                          *)
(***************************************************************************)
\* The step started a tranche: the sub-run on top of the stack is new.
TrancheStarted ==
    \/ last.act = "Fork"
    \/ last.act \in {"Tranche", "TrancheFail"} /\ Depth = last.depth

\* The ingredient values of the operations lo+1 .. lo+len of ops.
IngValuesOf(ops, lo, len) == [k \in 1..len |-> ops[lo + k].ingValues]

\* C12: when the sub-run of a tranche starts, the first or a later one,
\* every operation of the sub-list has the ingredient values it had when
\* the Fork began, whatever the tranches before rewrote.
C12_TrancheIsolation ==
    TrancheStarted =>
        /\ IngValuesOf(opList, Top.lo, Top.len) = stack[Depth - 1].fork.entry
        /\ last.act = "Fork" =>
              stack[Depth - 1].fork.entry = IngValuesOf(last.opList, Top.lo, Top.len)

\* A second tranche started after a capture in the first had rewritten a
\* "$R0" of the sub-list.
C12_Witness ==
    /\ TrancheStarted
    /\ last.act = "Tranche"
    /\ \E k \in 1..Top.len :
          /\ stack[Depth - 1].fork.entry[k] = <<Str(<<"$", "R", "0">>)>>
          /\ last.opList[Top.lo + k].ingValues # stack[Depth - 1].fork.entry[k]

\* C13: when a Fork has returned or failed, every operation of the list the
\* Fork stands in has the ingredient values it had when the Fork began,
\* whatever a Register of the sub-list rewrote during the tranches.
C13_NoLeak ==
    last.act \in {"ForkDone", "ForkAbort"} =>
        IF FromTranche
        THEN /\ IngValuesOf(opList, last.lo, last.len) = last.fork.entry
             /\ \A k \in 1..Len(opList) :
                   (k <= last.lo \/ k > last.lo + last.len) =>
                       opList[k] = last.opList[k]
        ELSE opList = last.opList

(***************************************************************************)
(* C14.                                                                    *)
(***************************************************************************)
\* The step entered or left a tranche, or ended a Fork.
ForkStep == last.act \in {"Fork", "Tranche", "TrancheFail", "ForkDone", "ForkAbort"}

\* C14: no step of a run takes the jump counter or the register counter
\* below the value it had before the step, and the steps that enter a
\* tranche, leave one or end a Fork leave both as they are: the outer run
\* goes on after a Fork with the register counter its tranches reached.
C14_CounterMonotone ==
    /\ numJumps >= last.numJumps
    /\ numRegisters >= last.numRegisters
    /\ ForkStep => numJumps = last.numJumps /\ numRegisters = last.numRegisters

\* A Fork of the outermost run ended whose three tranches had captured a
\* register each.
C14_Witness ==
    /\ ForkEnded
    /\ FromTranche
    /\ Depth = 1
    /\ Len(last.fork.results) = 3
    /\ numRegisters = 3

(***************************************************************************)
(* C15, C16: the cursor.  The cursor of a run is state.progress, as an     *)
(* operation receives it and as it returns it.  The loop variable of       *)
(* execute is this value plus 1 once the operation has returned.           *)
(***************************************************************************)
\* The step was a Conditional Jump that threw: nothing was returned and the
\* cursor stays at the operation.
Threw == last.act = "Conditional Jump" /\ status # "run"

\* The step was a flow control operation returning its state to the loop.
FlowReturned ==
    /\ last.act \in {"Jump", "Conditional Jump", "Return", "Label", "Comment",
                      "Merge", "Register", "ForkDone"}
    /\ ~Threw

\* The step ran, or skipped, the operation at the cursor of its run.
OpRan ==
    \/ last.act \in {"Skip", "Append", "FailOn", "Fork", "Jump", "Conditional Jump",
                      "Return", "Label", "Comment", "Merge", "Register"}
    \/ last.act = "ForkDone" /\ ~FromTranche

\* The step ended a tranche.
TrancheEnded == FromTranche \/ last.act \in {"Tranche", "TrancheFail"}

\* C15: the cursor of every run, the outermost and each tranche's, is at
\* least 0 and at most the length of the list the run executes: the cursor
\* an operation is run at lies inside the list, the cursor a flow control
\* operation returns (Jump, Conditional Jump, Return and the others, and
\* Fork after it added the exit progress of its last tranche) lies inside
\* the list or at its end, and so does the exit progress of a tranche,
\* failed or not.
C15_CursorBound ==
    /\ \A d \in 1..Depth : stack[d].progress >= 0
    /\ \A d \in 1..(Depth - 1) : stack[d].progress < stack[d].len
    /\ OpRan => last.progress >= 0 /\ last.progress < last.len
    /\ FlowReturned => Returned >= 0 /\ Returned <= Top.len
    /\ (TrancheEnded /\ ~Aborted) =>
          \A r \in 1..Len(last.fork.results) :
              /\ last.fork.results[r].progress >= 0
              /\ last.fork.results[r].progress <= last.len
    /\ Aborted => err >= 0 /\ err < Top.len

\* A Fork whose last tranche failed, ignored, short of the end of the
\* sub-list left the cursor of the outer run inside the sub-list.
C15_Witness ==
    /\ ForkEnded
    /\ Absorbed
    /\ last.len = 2
    /\ last.fork.results[Len(last.fork.results)].progress = 1
    /\ Returned = last.lo - Top.lo

\* C16: a Fork that ran at least one tranche returns the cursor it was
\* entered at plus the exit progress of its last tranche, whatever the exit
\* progress of the tranches before: the length of the sub-list when the
\* last tranche succeeded, the cursor of the failure plus one when it
\* failed and the failure was ignored.  When every tranche succeeded the
\* outer run goes on at the end of its list or with the Merge that ends
\* the sub-list.
C16_LastTrancheWins ==
    (ForkEnded /\ FromTranche) =>
        LET results == last.fork.results
            n == Len(results)
            entered == last.lo - 1 - Top.lo
        IN /\ n >= 1
           /\ Returned = entered + results[n].progress
           /\ results[n].progress = IF results[n].failed
                                    THEN last.progress + 1
                                    ELSE last.len
           /\ AllSucceeded =>
                 /\ Top.progress = entered + last.len + 1
                 /\ \/ Top.progress = Top.len
                    \/ /\ opList[Top.lo + Top.progress + 1].name = "Merge"
                       /\ ~opList[Top.lo + Top.progress + 1].disabled

\* A Fork ended whose first tranche had failed on the first operation of
\* the sub-list and whose last tranche ran the two of them.
C16_Witness ==
    /\ ForkEnded
    /\ FromTranche
    /\ Len(last.fork.results) >= 2
    /\ last.fork.results[1].progress = 1
    /\ last.fork.results[Len(last.fork.results)].progress = 2
    /\ Returned = last.lo - 1 - Top.lo + 2

(***************************************************************************)
(* C17.                                                                    *)
(***************************************************************************)
\* The positions in opList (1-based), from lo to hi, of the enabled Merges.
EnabledMerges(lo, hi) ==
    {k \in lo..hi : opList[k].name = "Merge" /\ ~opList[k].disabled}

\* C17: the sub-list a tranche runs is the operations of the Fork's list
\* after the Fork, in order, up to but without the first enabled Merge, or
\* up to the end of that list when no enabled Merge follows; a disabled
\* Merge does not end it.  No operation run or skipped inside a tranche is
\* or follows an enabled Merge that follows the Fork.
C17_SubListBounds ==
    /\ TrancheStarted =>
          LET fork == Top.lo
              end == stack[Depth - 1].lo + stack[Depth - 1].len
              merges == EnabledMerges(fork + 1, end)
          IN /\ opList[fork].name = "Fork"
             /\ stack[Depth - 1].lo + stack[Depth - 1].progress + 1 = fork
             /\ Top.len = IF merges = {} THEN end - fork ELSE Least(merges) - fork - 1
    /\ (OpRan /\ last.depth >= 2) =>
          EnabledMerges(last.lo + 1, last.lo + last.progress + 1) = {}

\* A tranche started on a sub-list of a disabled Merge and another
\* operation, ended by an enabled Merge.
C17_Witness ==
    /\ TrancheStarted
    /\ Top.len = 2
    /\ opList[Top.lo + 1].name = "Merge"
    /\ opList[Top.lo + 1].disabled
    /\ Len(opList) > Top.lo + 2
    /\ opList[Top.lo + 3].name = "Merge"
    /\ ~opList[Top.lo + 3].disabled

(***************************************************************************)
(* C18.                                                                    *)
(***************************************************************************)
\* Two publications of different Register operations, not both made in
\* tranches of the same Fork operation.
Apart(p, q) == p.op # q.op /\ p.fork # q.fork

\* forkOffset grows by cursor + 1 when a Fork is entered and at no other
\* step.
ForkOffsetGrows ==
    IF last.act = "Fork" \/ (last.act = "ForkDone" /\ ~FromTranche)
    THEN forkOffset = last.forkOffset + last.progress + 1
    ELSE forkOffset = last.forkOffset

\* C18: in every run, jumps that run a Fork again included, the index
\* forkOffset + cursor published for a capture made inside a tranche of a
\* Fork differs from the index published for any other Register operation
\* outside that Fork or inside another Fork; forkOffset only grows, by
\* cursor + 1 for each Fork that is run.
\* The run does not satisfy it: forkOffset grows as said, but the offset a
\* Fork has added stays for the operations that run after it, and the sum
\* of an offset and a cursor of a sub-list meets the sum of the same
\* offset and a cursor of the outer list, or of a later offset and a
\* smaller cursor.
C18_RegisterIndexUnique ==
    /\ ForkOffsetGrows
    /\ \A p, q \in published : Apart(p, q) => p.index # q.index

(***************************************************************************)
(* C19.                                                                    *)
(***************************************************************************)
\* C19: a Fork run on an empty value runs no tranche: it returns at once,
\* with the empty text in the outer dish, the cursor on the Fork itself
\* and every operation as it was, so that the outer run goes on with the
\* operation right after the Fork, the first of the sub-list.  A Fork run
\* on a value that is not empty runs at least one tranche.
C19_ForkOnEmpty ==
    /\ last.act = "Fork" => last.dish # <<>>
    /\ (ForkEnded /\ ~FromTranche) =>
          /\ last.dish = <<>>
          /\ last.fork.inputs = <<>>
          /\ last.fork.results = <<>>
          /\ status = "run"
          /\ Depth = last.depth
          /\ Top.dish = <<>>
          /\ Returned = last.progress
          /\ Top.progress = last.progress + 1
          /\ opList = last.opList

\* After a Fork on the empty value the outer run ran the operation that
\* follows the Fork, in front of the Merge.
C19_Witness ==
    /\ last.act = "Append"
    /\ last.depth = 1
    /\ last.progress = 1
    /\ last.dish = <<>>
    /\ opList[1].name = "Fork"
    /\ Len(opList) >= 3
    /\ opList[3].name = "Merge"
    /\ forkOffset = 1

(***************************************************************************)
(* C20.                                                                    *)
(***************************************************************************)
\* The numbers of the registers a published capture made addressable.
RangeOf(p) == p.numRegisters..(p.numRegisters + Len(p.registers) - 1)

\* The argument a stripped token u stands in, as <<k, a>> of the run that
\* took the step.
ArgOf(u) == <<u.op - last.lo, u.arg>>

\* C20 as claimed: the captures of a run that have at least one group
\* cover ranges of register numbers that do not meet, so a token $Rd is in
\* range for at most one of them; and the text $Rd a capture has left of
\* an escaped token is not replaced by any later capture of the run, one
\* repeated by a jump included: an argument that holds it goes on holding
\* it.
C20_AsClaimed ==
    /\ \A p, q \in published :
          (p # q /\ p.registers # <<>> /\ q.registers # <<>>) =>
              RangeOf(p) \cap RangeOf(q) = {}
    /\ RegisterMatched =>
          \A u \in last.unescaped :
              (ArgOf(u) \in TextArgs /\ Contains(Before(ArgOf(u)), Ref(u.d))) =>
                  Contains(After(ArgOf(u)), Ref(u.d))

\* C20, amended: the captures of a run that have at least one group cover
\* ranges of register numbers that do not meet, so a token $Rd is in range
\* for at most one of them.  A token whose escape a capture has stripped
\* has a number below the register counter from then on: no later capture
\* of the run, one repeated by a jump included, has it in range, and an
\* argument that is the text $Rd comes out as it went in.  (Where the
\* value put in right behind the stripped token begins with a digit, the
\* two are read as a token of another number, which a later capture may
\* replace.)
C20_ResolvedOnce ==
    /\ \A p, q \in published :
          (p # q /\ p.registers # <<>> /\ q.registers # <<>>) =>
              RangeOf(p) \cap RangeOf(q) = {}
    /\ \A u \in unescaped : u.d < numRegisters
    /\ RegisterMatched =>
          \A u \in last.unescaped :
              /\ ~JustCaptured(u.d)
              /\ (ArgOf(u) \in TextArgs /\ Before(ArgOf(u)) = Ref(u.d)) =>
                    After(ArgOf(u)) = Ref(u.d)

\* In a loop, a capture met the "$R99" an earlier pass had made of "\$R99"
\* and left it.
C20_Witness ==
    /\ RegisterMatched
    /\ last.numJumps >= 1
    /\ \E u \in last.unescaped :
          /\ u.d = 99
          /\ ArgOf(u) \in TextArgs
          /\ Before(ArgOf(u)) = Ref(99)
          /\ After(ArgOf(u)) = Ref(99)

====
